---- MODULE Spec2Model ----
(***************************************************************************)
(* ftdi-jtag: a JTAG TAP driven through an FTDI MPSSE engine (src/main.rs). *)
(*                                                                         *)
(* The program is a straight line of transport calls; every call is        *)
(* followed by .unwrap(), and the three entry checks are assert!s, so a    *)
(* failure of any of them is a panic that ends the process.  The model     *)
(* keeps the program as the sequence of its transport calls (prog, ip),    *)
(* the bytes in flight to the device (tx), the receive queue (rx), and the *)
(* device: the MPSSE engine that executes the written commands in order    *)
(* and the TAP it clocks.                                                  *)
(*                                                                         *)
(* Spec    is the session run by main.                                     *)
(* FairSpec is Spec with the program always taking its next step.          *)
(* OpSpec  calls one operation of the file with arguments and a starting   *)
(*         TAP state drawn from bounded sets.                              *)
(***************************************************************************)
EXTENDS Integers, Sequences, FiniteSets, TLC

VARIABLES
    prog,      \* the instructions the process runs, in order
    ip,        \* index in prog of the next instruction
    status,    \* "running" | "panicked" | "exited"
    call,      \* the operation under way and its arguments
    log,       \* every write_all attempted: [fn, cmd, ok]
    tx,        \* commands written and not yet executed by the device
    rx,        \* the receive queue of the transport
    resp,      \* bytes the device produced for capturing commands
    sync_buf,  \* buf of sync (line 37), None before read_all
    main_buf,  \* buf of main (line 215), None before read_all
    tap,       \* TAP state of the device
    tap0,      \* TAP state before the first command
    tmsLine,   \* level of the TMS pin
    dr,        \* data register of the device, as bits, next out first
    idcode,    \* the 32-bit ID the device captures into dr (4 bytes, LE)
    devReply,  \* what the device answers to an invalid opcode
    cycles     \* every TCK cycle clocked: [tms, tdi, tdo, rd]

vars == <<prog, ip, status, call, log, tx, rx, resp, sync_buf, main_buf,
          tap, tap0, tmsLine, dr, idcode, devReply, cycles>>

None == <<"none">>

----------------------------------------------------------------------------
(* Bounds of the model *)

\* longest payload handed to shift_bytes
MaxPayload == 4

----------------------------------------------------------------------------
(* Constants of the program *)

IDCODE   == 9
USER1    == 2
USER2    == 3
USER3    == 34
USER4    == 35
USERCODE == 8

\* the bad command written by sync, 0xaa
BAD_COMMAND == 170
\* the marker the device answers a bad command with, 0xfa
BAD_MARKER == 250

----------------------------------------------------------------------------
(* Bits and bytes *)

RECURSIVE Pow2(_)
Pow2(n) == IF n <= 0 THEN 1 ELSE 2 * Pow2(n - 1)

\* bit i (0 = least significant) of byte b
Bit(b, i) == (b \div Pow2(i)) % 2

B2N(b) == IF b THEN 1 ELSE 0

RECURSIVE SumTo(_, _)
SumTo(f, n) == IF n = 0 THEN 0 ELSE f[n] + SumTo(f, n - 1)

\* the byte whose bit i-1 is bits[i], for 8 bits
PackByte(bits) == SumTo([i \in 1..8 |-> bits[i] * Pow2(i - 1)], 8)

\* the bits of a byte sequence, least significant bit of the first byte first
BitsOf(bytes) ==
    [k \in 1..(8 * Len(bytes)) |-> Bit(bytes[(k - 1) \div 8 + 1], (k - 1) % 8)]

\* whole bytes out of a bit sequence whose length is a multiple of 8
PackBytes(bits) ==
    [j \in 1..(Len(bits) \div 8) |-> PackByte(SubSeq(bits, 8 * (j - 1) + 1, 8 * j))]

----------------------------------------------------------------------------
(* The TAP controller of the device (IEEE 1149.1) *)

TapStates ==
    {"TLR", "RTI", "SelDR", "CapDR", "ShiftDR", "Exit1DR", "PauseDR", "Exit2DR",
     "UpdDR", "SelIR", "CapIR", "ShiftIR", "Exit1IR", "PauseIR", "Exit2IR", "UpdIR"}

TapNext(s, tms) ==
    CASE s = "TLR"     -> IF tms = 1 THEN "TLR"     ELSE "RTI"
      [] s = "RTI"     -> IF tms = 1 THEN "SelDR"   ELSE "RTI"
      [] s = "SelDR"   -> IF tms = 1 THEN "SelIR"   ELSE "CapDR"
      [] s = "CapDR"   -> IF tms = 1 THEN "Exit1DR" ELSE "ShiftDR"
      [] s = "ShiftDR" -> IF tms = 1 THEN "Exit1DR" ELSE "ShiftDR"
      [] s = "Exit1DR" -> IF tms = 1 THEN "UpdDR"   ELSE "PauseDR"
      [] s = "PauseDR" -> IF tms = 1 THEN "Exit2DR" ELSE "PauseDR"
      [] s = "Exit2DR" -> IF tms = 1 THEN "UpdDR"   ELSE "ShiftDR"
      [] s = "UpdDR"   -> IF tms = 1 THEN "SelDR"   ELSE "RTI"
      [] s = "SelIR"   -> IF tms = 1 THEN "TLR"     ELSE "CapIR"
      [] s = "CapIR"   -> IF tms = 1 THEN "Exit1IR" ELSE "ShiftIR"
      [] s = "ShiftIR" -> IF tms = 1 THEN "Exit1IR" ELSE "ShiftIR"
      [] s = "Exit1IR" -> IF tms = 1 THEN "UpdIR"   ELSE "PauseIR"
      [] s = "PauseIR" -> IF tms = 1 THEN "Exit2IR" ELSE "PauseIR"
      [] s = "Exit2IR" -> IF tms = 1 THEN "UpdIR"   ELSE "ShiftIR"
      [] s = "UpdIR"   -> IF tms = 1 THEN "SelDR"   ELSE "RTI"

\* the TMS level of the cycle that entered a state (one level per state)
EntryTms(s) ==
    IF s \in {"TLR", "SelDR", "SelIR", "Exit1DR", "Exit2DR", "UpdDR",
              "Exit1IR", "Exit2IR", "UpdIR"} THEN 1 ELSE 0

\* the state after n cycles with TMS held at tms
RECURSIVE TapHold(_, _, _)
TapHold(s, tms, n) == IF n = 0 THEN s ELSE TapHold(TapNext(s, tms), tms, n - 1)

----------------------------------------------------------------------------
(* MPSSE commands, as MpsseCmdBuilder builds them *)

\* modes that sample TDO
ReadModes == {"LsbPosIn", "NegTMSPosTDO"}

clock_tms_out(mode, data, tdi, len) ==
    [op |-> "tms", mode |-> mode, data |-> <<data>>, tdi |-> tdi, len |-> len]

clock_tms(mode, data, tdi, len) ==
    [op |-> "tms", mode |-> mode, data |-> <<data>>, tdi |-> tdi, len |-> len]

clock_bits_out(mode, data, len) ==
    [op |-> "bits", mode |-> mode, data |-> <<data>>, tdi |-> FALSE, len |-> len]

clock_bits(mode, data, len) ==
    [op |-> "bits", mode |-> mode, data |-> <<data>>, tdi |-> FALSE, len |-> len]

clock_data(mode, data) ==
    [op |-> "bytes", mode |-> mode, data |-> data, tdi |-> FALSE, len |-> Len(data)]

\* set_clock, disable_adaptive_data_clocking, disable_3phase_data_clocking,
\* disable_loopback: one write, no clock cycle, no response
jtag_setup_cmd ==
    [op |-> "cfg", mode |-> "clock", data |-> <<>>, tdi |-> FALSE, len |-> 0]

\* set_gpio_lower(0x08, 0x0b), set_gpio_upper(0, 0): data[1] is the level byte
gpio_setup_cmd ==
    [op |-> "gpio", mode |-> "gpio", data |-> <<8, 11>>, tdi |-> FALSE, len |-> 0]

bad_command ==
    [op |-> "bad", mode |-> "bad", data |-> <<BAD_COMMAND>>, tdi |-> FALSE, len |-> 1]

----------------------------------------------------------------------------
(* The device: the MPSSE engine and the TAP behind it *)

\* the cycles of one command: TMS and TDI of each, in clock order; a data
\* command does not drive TMS, which stays at the level line
Steps(c, line) ==
    CASE c.op = "tms" ->
           [k \in 1..c.len |-> [tms |-> Bit(c.data[1], k - 1), tdi |-> B2N(c.tdi)]]
      [] c.op = "bits" ->
           [k \in 1..c.len |-> [tms |-> line, tdi |-> Bit(c.data[1], k - 1)]]
      [] c.op = "bytes" ->
           [k \in 1..(8 * Len(c.data)) |->
              [tms |-> line, tdi |-> Bit(c.data[(k - 1) \div 8 + 1], (k - 1) % 8)]]
      [] OTHER -> <<>>

\* the TMS level a command leaves on the pin
LineAfter(c, line) ==
    CASE c.op = "tms" /\ c.len >= 1 -> Bit(c.data[1], c.len - 1)
      [] c.op = "gpio" -> Bit(c.data[1], 3)
      [] OTHER -> line

\* one TCK cycle: TDO is sampled, then the rising edge acts on the state
\* being left (Capture-DR loads the ID, Shift-DR shifts TDI in)
ClockOne(d, st, rd) ==
    LET tdo == IF d.tap = "ShiftDR" THEN d.dr[1] ELSE 0
    IN [tap |-> TapNext(d.tap, st.tms),
        dr  |-> CASE d.tap = "CapDR"   -> BitsOf(d.id)
                  [] d.tap = "ShiftDR" -> Append(Tail(d.dr), st.tdi)
                  [] OTHER -> d.dr,
        id  |-> d.id,
        out |-> Append(d.out, [tms |-> st.tms, tdi |-> st.tdi, tdo |-> tdo, rd |-> rd])]

RECURSIVE ClockAll(_, _, _)
ClockAll(d, steps, rd) ==
    IF steps = <<>> THEN d
    ELSE ClockAll(ClockOne(d, Head(steps), rd), Tail(steps), rd)

\* a bit-level read, LSB first: each sample enters at bit 7 and moves the
\* earlier ones down, so n samples end in bits 8-n..7; the bits below are
\* whatever the shift register held (fill)
ShiftInByte(samples, fill) ==
    LET n == Len(samples)
    IN SumTo([i \in 1..n |-> samples[i] * Pow2(8 - n + i - 1)], n)
         + fill * (Pow2(8 - n) - 1)

\* the response bytes of one command
Response(c, samples, fill, reply) ==
    CASE c.op = "bad" -> reply
      [] c.op = "bytes" /\ c.mode \in ReadModes -> PackBytes(samples)
      [] c.op \in {"bits", "tms"} /\ c.mode \in ReadModes ->
           <<ShiftInByte(samples, fill)>>
      [] OTHER -> <<>>

\* the device executes the oldest command in flight
DeviceExec ==
    /\ tx # <<>>
    /\ \E d \in {ClockAll([tap |-> tap, dr |-> dr, id |-> idcode, out |-> <<>>],
                          Steps(Head(tx), tmsLine), Head(tx).mode \in ReadModes)} :
       \E fill \in 0..1 :
       \E bytes \in {Response(Head(tx), [k \in 1..Len(d.out) |-> d.out[k].tdo],
                              fill, devReply)} :
         /\ tx' = Tail(tx)
         /\ tap' = d.tap
         /\ dr' = d.dr
         /\ tmsLine' = LineAfter(Head(tx), tmsLine)
         /\ cycles' = cycles \o d.out
         /\ rx' = rx \o bytes
         /\ resp' = IF Head(tx).op = "bad" THEN resp ELSE resp \o bytes
    /\ UNCHANGED <<prog, ip, status, call, log, sync_buf, main_buf, tap0,
                   idcode, devReply>>

----------------------------------------------------------------------------
(* The program: each function is the sequence of its transport calls *)

Write(cmd)        == [i |-> "write", cmd |-> cmd]
Read(dst, n)      == [i |-> "read", dst |-> dst, n |-> n]
AssertThat(ok)    == [i |-> "assert", ok |-> ok]
AssertEq(idx, v)  == [i |-> "assert_eq", idx |-> idx, val |-> v]

\* the instructions of body, each marked with the function it belongs to
Tag(fn, body) == [k \in 1..Len(body) |-> [fn |-> fn] @@ body[k]]

\* unwrap as it would be if the error were dropped (let _ = ...)
unwrap_ignored(ok) == "running"

\* the outcome of .unwrap() on a transport result: Err panics
unwrap(ok) == IF ok THEN "running" ELSE "panicked"

\* loop { queue_status; if != 0 break; status; sleep }
wait_data == << [i |-> "poll"], [i |-> "sleep"] >>

\* sync as it would be if only the marker byte were checked
sync_marker_only ==
    <<Write(bad_command)>> \o wait_data
      \o <<Read("sync", 2), AssertEq(1, BAD_MARKER)>>

sync ==
    <<Write(bad_command)>> \o wait_data
      \o <<Read("sync", 2), AssertEq(1, BAD_MARKER), AssertEq(2, BAD_COMMAND)>>

\* reset_tap as it would be with four TMS=1 cycles
reset_tap_short == <<Write(clock_tms_out("NegEdge", 15, FALSE, 4))>>

reset_tap == <<Write(clock_tms_out("NegEdge", 127, FALSE, 7))>>

\* shift_ir as it would be with len, not len - 1, plain bits
shift_ir_long(insn, len) ==
    <<AssertThat(len >= 2),
      Write(clock_bits_out("LsbNeg", insn, len)),
      Write(clock_tms_out("NegEdge", 1, FALSE, 1))>>

\* shift_ir as it would be with the length checked after the first write
shift_ir_late_check(insn, len) ==
    <<Write(clock_bits_out("LsbNeg", insn, len - 1)),
      AssertThat(len >= 2),
      Write(clock_tms_out("NegEdge", 1, FALSE, 1))>>

shift_ir(insn, len) ==
    <<AssertThat(len >= 2),
      Write(clock_bits_out("LsbNeg", insn, len - 1)),
      Write(clock_tms_out("NegEdge", 1, FALSE, 1))>>

shift_dr(data, len) ==
    <<AssertThat(len >= 2),
      Write(clock_bits("LsbPosIn", data, 7)),
      Write(clock_tms("NegTMSPosTDO", 1, FALSE, 1))>>

\* shift_bytes as it would be with the exit cycle not captured
shift_bytes_exit_uncaptured(data) ==
    <<AssertThat(Len(data) >= 2), AssertThat(data # <<>>)>>
      \o (IF data = <<>> THEN <<>>
          ELSE LET last == data[Len(data)]
                   init == SubSeq(data, 1, Len(data) - 1)
               IN <<Write(clock_data("LsbPosIn", init)),
                    Write(clock_bits("LsbPosIn", last, 7)),
                    Write(clock_tms_out("NegEdge", 1, FALSE, 1))>>)

\* split_last is None for an empty slice; the assert comes first
shift_bytes(data) ==
    <<AssertThat(Len(data) >= 2), AssertThat(data # <<>>)>>
      \o (IF data = <<>> THEN <<>>
          ELSE LET last == data[Len(data)]
                   init == SubSeq(data, 1, Len(data) - 1)
               IN <<Write(clock_data("LsbPosIn", init)),
                    Write(clock_bits("LsbPosIn", last, 7)),
                    Write(clock_tms("NegTMSPosTDO", 1, FALSE, 1))>>)

\* reset_to_shift_ir as it would be with the pattern of reset_to_shift_dr
reset_to_shift_ir_dr_pattern == <<Write(clock_tms_out("NegEdge", 2, FALSE, 5))>>

\* exit_ir_to_shift_dr as it would be one cycle short
exit_ir_to_shift_dr_short == <<Write(clock_tms_out("NegEdge", 3, FALSE, 3))>>

reset_to_shift_dr   == <<Write(clock_tms_out("NegEdge", 2, FALSE, 4))>>
reset_to_shift_ir   == <<Write(clock_tms_out("NegEdge", 6, FALSE, 5))>>
exit_ir_to_shift_dr == <<Write(clock_tms_out("NegEdge", 3, FALSE, 4))>>
exit_dr_to_reset    == <<Write(clock_tms_out("NegEdge", 255, FALSE, 4))>>

\* main as it would be with line 201 in place of line 200
main_via_shift_dr ==
    Tag("main", << [i |-> "ft_setup"] >>)
      \o Tag("sync", sync)
      \o Tag("main", <<Write(jtag_setup_cmd), Write(gpio_setup_cmd)>>)
      \o Tag("reset_tap", reset_tap)
      \o Tag("reset_to_shift_dr", reset_to_shift_dr)
      \o Tag("shift_ir", shift_ir(IDCODE, 6))
      \o Tag("exit_ir_to_shift_dr", exit_ir_to_shift_dr)
      \o Tag("shift_bytes", shift_bytes(<<0, 0, 0, 0>>))
      \o Tag("exit_dr_to_reset", exit_dr_to_reset)
      \o Tag("main", wait_data \o <<Read("main", 5), [i |-> "ret"]>>)

main ==
    Tag("main", << [i |-> "ft_setup"] >>)
      \o Tag("sync", sync)
      \o Tag("main", <<Write(jtag_setup_cmd), Write(gpio_setup_cmd)>>)
      \o Tag("reset_tap", reset_tap)
      \o Tag("reset_to_shift_ir", reset_to_shift_ir)
      \o Tag("shift_ir", shift_ir(IDCODE, 6))
      \o Tag("exit_ir_to_shift_dr", exit_ir_to_shift_dr)
      \o Tag("shift_bytes", shift_bytes(<<0, 0, 0, 0>>))
      \o Tag("exit_dr_to_reset", exit_dr_to_reset)
      \o Tag("main", wait_data \o <<Read("main", 5), [i |-> "ret"]>>)

----------------------------------------------------------------------------
(* Steps of the process *)

Running == status = "running" /\ ip <= Len(prog)
Cur     == prog[ip]

\* after a step that did not panic the process is at the next instruction
Advance(st, next) ==
    /\ status' = st
    /\ ip' = IF st = "running" THEN next ELSE ip

\* lines 149-176: open the device and configure the driver
FtSetup ==
    /\ Running /\ Cur.i = "ft_setup"
    /\ \E ok \in BOOLEAN : Advance(unwrap(ok), ip + 1)
    /\ UNCHANGED <<prog, call, log, tx, rx, resp, sync_buf, main_buf,
                   tap, tap0, tmsLine, dr, idcode, devReply, cycles>>

\* ft.write_all(cmd.as_slice()).unwrap()
DoWrite ==
    /\ Running /\ Cur.i = "write"
    /\ \E ok \in BOOLEAN :
         /\ log' = Append(log, [fn |-> Cur.fn, cmd |-> Cur.cmd, ok |-> ok])
         /\ tx' = IF ok THEN Append(tx, Cur.cmd) ELSE tx
         /\ Advance(unwrap(ok), ip + 1)
    /\ UNCHANGED <<prog, call, rx, resp, sync_buf, main_buf,
                   tap, tap0, tmsLine, dr, idcode, devReply, cycles>>

\* wait_data, lines 17-19: leave the loop once the queue is not empty
Poll ==
    /\ Running /\ Cur.i = "poll"
    /\ \E ok \in BOOLEAN :
         Advance(unwrap(ok), IF Len(rx) # 0 THEN ip + 2 ELSE ip + 1)
    /\ UNCHANGED <<prog, call, log, tx, rx, resp, sync_buf, main_buf,
                   tap, tap0, tmsLine, dr, idcode, devReply, cycles>>

\* wait_data, lines 21-26: status, sleep 10 ms, and around again
Sleep ==
    /\ Running /\ Cur.i = "sleep"
    /\ \E ok \in BOOLEAN : Advance(unwrap(ok), ip - 1)
    /\ UNCHANGED <<prog, call, log, tx, rx, resp, sync_buf, main_buf,
                   tap, tap0, tmsLine, dr, idcode, devReply, cycles>>

\* ft.read_all(&mut buf).unwrap(): the first n bytes of the queue, or an
\* error (the transport fails, or fewer than n bytes come before the read
\* timeout) that leaves buf as it was initialised
DoRead ==
    /\ Running /\ Cur.i = "read"
    /\ \E ok \in BOOLEAN :
         /\ ok => Len(rx) >= Cur.n
         /\ LET got == IF ok THEN SubSeq(rx, 1, Cur.n) ELSE [k \in 1..Cur.n |-> 0]
            IN /\ sync_buf' = IF Cur.dst = "sync" THEN got ELSE sync_buf
               /\ main_buf' = IF Cur.dst = "main" THEN got ELSE main_buf
         /\ rx' = IF ok THEN SubSeq(rx, Cur.n + 1, Len(rx)) ELSE rx
         /\ Advance(unwrap(ok), ip + 1)
    /\ UNCHANGED <<prog, call, log, tx, resp,
                   tap, tap0, tmsLine, dr, idcode, devReply, cycles>>

\* assert!(cond)
DoAssert ==
    /\ Running /\ Cur.i = "assert"
    /\ Advance(IF Cur.ok THEN "running" ELSE "panicked", ip + 1)
    /\ UNCHANGED <<prog, call, log, tx, rx, resp, sync_buf, main_buf,
                   tap, tap0, tmsLine, dr, idcode, devReply, cycles>>

\* assert_eq!(buf[idx], val) of sync
DoAssertEq ==
    /\ Running /\ Cur.i = "assert_eq"
    /\ Advance(IF sync_buf[Cur.idx] = Cur.val THEN "running" ELSE "panicked", ip + 1)
    /\ UNCHANGED <<prog, call, log, tx, rx, resp, sync_buf, main_buf,
                   tap, tap0, tmsLine, dr, idcode, devReply, cycles>>

\* the function returns
Ret ==
    /\ Running /\ Cur.i = "ret"
    /\ status' = "exited"
    /\ UNCHANGED <<prog, ip, call, log, tx, rx, resp, sync_buf, main_buf,
                   tap, tap0, tmsLine, dr, idcode, devReply, cycles>>

ProgStep ==
    FtSetup \/ DoWrite \/ Poll \/ Sleep \/ DoRead \/ DoAssert \/ DoAssertEq \/ Ret

----------------------------------------------------------------------------
(* The session run by main *)

\* bytes a prior mode may have left in the receive queue
StaleQueues == { <<>>, <<0>>, <<BAD_MARKER>>, <<BAD_MARKER, BAD_COMMAND>> }

\* answers of the device to the bad command
Replies == { <<BAD_MARKER, BAD_COMMAND>>, <<BAD_MARKER, 0>>,
             <<0, BAD_COMMAND>>, <<>> }

\* IDs of the device, four bytes, least significant first
IdCodes == { <<119, 4, 160, 75>>, <<147, 0, 0, 128>> }

Init ==
    /\ prog = main
    /\ ip = 1
    /\ status = "running"
    /\ call = [fn |-> "main", data |-> <<>>, len |-> 0]
    /\ log = <<>> /\ tx = <<>> /\ resp = <<>> /\ cycles = <<>>
    /\ rx \in StaleQueues
    /\ sync_buf = None /\ main_buf = None
    /\ tap \in TapStates /\ tap0 = tap
    /\ tmsLine = EntryTms(tap)
    /\ idcode \in IdCodes /\ dr = BitsOf(idcode)
    /\ devReply \in Replies

Next == ProgStep \/ DeviceExec

Spec == Init /\ [][Next]_vars

\* the process is scheduled until it ends; nothing is assumed of the device
FairSpec == Spec /\ WF_vars(ProgStep)

----------------------------------------------------------------------------
(* One operation, called with any arguments from any TAP state *)

Opcodes == {IDCODE, USER1, USER2, USER3, USER4, USERCODE, 0, 255}

ByteSamples == {0, 128, 165}

Payloads == UNION { [1..n -> ByteSamples] : n \in 0..MaxPayload }

NoArgCalls ==
    {"reset_tap", "reset_to_shift_dr", "reset_to_shift_ir",
     "exit_ir_to_shift_dr", "exit_dr_to_reset"}

Calls ==
    [fn : NoArgCalls, data : {<<>>}, len : {0}]
      \cup [fn : {"shift_ir"}, data : {<<o>> : o \in Opcodes}, len : 0..9]
      \cup [fn : {"shift_dr"}, data : {<<b>> : b \in ByteSamples}, len : 0..8]
      \cup {[fn |-> "shift_bytes", data |-> p, len |-> Len(p)] : p \in Payloads}

Body(c) ==
    CASE c.fn = "reset_tap"           -> reset_tap
      [] c.fn = "reset_to_shift_dr"   -> reset_to_shift_dr
      [] c.fn = "reset_to_shift_ir"   -> reset_to_shift_ir
      [] c.fn = "exit_ir_to_shift_dr" -> exit_ir_to_shift_dr
      [] c.fn = "exit_dr_to_reset"    -> exit_dr_to_reset
      [] c.fn = "shift_ir"            -> shift_ir(c.data[1], c.len)
      [] c.fn = "shift_dr"            -> shift_dr(c.data[1], c.len)
      [] c.fn = "shift_bytes"         -> shift_bytes(c.data)

OpInit ==
    /\ call \in Calls
    /\ prog = Tag(call.fn, Body(call) \o << [i |-> "ret"] >>)
    /\ ip = 1
    /\ status = "running"
    /\ log = <<>> /\ tx = <<>> /\ resp = <<>> /\ cycles = <<>> /\ rx = <<>>
    /\ sync_buf = None /\ main_buf = None
    /\ tap \in TapStates /\ tap0 = tap
    /\ tmsLine = EntryTms(tap)
    /\ idcode \in IdCodes /\ dr = BitsOf(idcode)
    /\ devReply = <<BAD_MARKER, BAD_COMMAND>>

OpNext == DoAssert \/ DoWrite \/ Ret \/ DeviceExec

OpSpec == OpInit /\ [][OpNext]_vars

\* the call has returned and the device has executed all it wrote
Done == status = "exited" /\ tx = <<>>

----------------------------------------------------------------------------
(* Properties of the session *)

\* the acknowledgment frame sync expects
GoodAck == <<BAD_MARKER, BAD_COMMAND>>

InSync == ip <= Len(prog) /\ prog[ip].fn = "sync"

\* sync has returned to main
SyncReturned == \E k \in 1..(ip - 1) : prog[k].fn = "sync" /\ ~InSync

\* the process panicked inside sync
SyncFailed == status = "panicked" /\ InSync

\* C1: sync returns if and only if the two bytes it read are [0xFA, 0xAA];
\* with any other two bytes it cannot return (it is at an assert_eq that
\* will panic, or has panicked), and after a failed sync nothing but the bad
\* command was ever written.
C1_SyncIffAck ==
    /\ SyncReturned => sync_buf = GoodAck
    /\ sync_buf = GoodAck => ~SyncFailed
    /\ (sync_buf # None /\ sync_buf # GoodAck) =>
          \/ SyncFailed
          \/ status = "running" /\ InSync /\ Cur.i = "assert_eq"
    /\ SyncFailed =>
          /\ \A k \in 1..Len(log) : log[k].fn = "sync"
          /\ \A k \in 1..Len(tx) : tx[k] = bad_command

C1_Witness == SyncFailed /\ sync_buf = <<BAD_MARKER, 0>>

\* C2: against a device that never answers (and an empty receive queue),
\* sync ends in a failure.
C2_SyncWaitTerminates == (rx = <<>> /\ devReply = <<>>) => <>SyncFailed

\* C3: against a device that answers the bad command with [0xFA, 0xAA],
\* once sync has returned, and until main reads, the receive queue holds
\* exactly the bytes produced by capturing commands, whatever it held at
\* the start.
C3_SyncAligns ==
    (devReply = GoodAck /\ SyncReturned /\ main_buf = None) => rx = resp

ShiftFns == {"shift_ir", "shift_dr", "shift_bytes"}

\* C10: after a failed write no shift command is written unless a reset was
\* written successfully in between, and a shift with a failed write is never
\* left: the process stays panicked inside it.
C10_NoShiftAfterFailedWrite ==
    \A i \in 1..Len(log) : ~log[i].ok =>
        /\ \A j \in (i + 1)..Len(log) : log[j].fn \in ShiftFns =>
              \E k \in (i + 1)..(j - 1) : log[k].fn = "reset_tap" /\ log[k].ok
        /\ log[i].fn \in ShiftFns =>
              status = "panicked" /\ prog[ip].fn = log[i].fn

C10_Witness ==
    /\ Len(log) >= 3
    /\ ~log[Len(log)].ok /\ log[Len(log)].fn = "shift_bytes"
    /\ log[Len(log) - 1].fn = "shift_bytes" /\ log[Len(log) - 2].fn = "shift_bytes"
    /\ status = "panicked"

----------------------------------------------------------------------------
(* Properties of the operations *)

\* the TDO samples of the cycles clocked
Samples == [k \in 1..Len(cycles) |-> cycles[k].tdo]

\* C4: five TMS=1 cycles end in Test-Logic-Reset from each of the 16
\* states, and reset_tap clocks 7 cycles, all TMS=1, and leaves the TAP in
\* Test-Logic-Reset whatever state it started in.
C4_ResetReachesTLR ==
    /\ \A s \in TapStates : TapHold(s, 1, 5) = "TLR"
    /\ (call.fn = "reset_tap" /\ Done) =>
          /\ tap = "TLR"
          /\ Len(cycles) = 7
          /\ \A k \in 1..Len(cycles) : cycles[k].tms = 1

C4_Witness == call.fn = "reset_tap" /\ Done /\ tap0 = "PauseIR"

IrCall == call.fn = "shift_ir" /\ call.len \in 2..8 /\ tap0 = "ShiftIR"

\* C5: from Shift-IR, shift_ir(insn, len) with 2 <= len <= 8 clocks len
\* cycles, the first len-1 with TMS=0 and the last with TMS=1, ends in
\* Exit1-IR, captures nothing and adds nothing to the response stream.
C5_ShiftIrCycles ==
    (IrCall /\ Done) =>
        /\ Len(cycles) = call.len
        /\ \A k \in 1..(call.len - 1) : cycles[k].tms = 0
        /\ cycles[call.len].tms = 1
        /\ tap = "Exit1IR"
        /\ \A k \in 1..Len(cycles) : ~cycles[k].rd
        /\ rx = <<>> /\ resp = <<>>

C5_Witness == IrCall /\ Done /\ call.len = 6 /\ call.data = <<IDCODE>>

\* C6: the TDI values of the len cycles of shift_ir are bits 0..len-1 of the
\* opcode, in that order, the final cycle included.
C6_ShiftIrTdi ==
    (IrCall /\ Done) =>
        /\ Len(cycles) = call.len
        /\ \A k \in 1..call.len : cycles[k].tdi = Bit(call.data[1], k - 1)

DrCall == call.fn = "shift_bytes" /\ Len(call.data) >= 2 /\ tap0 = "ShiftDR"

\* C7: from Shift-DR, shift_bytes of n >= 2 bytes clocks 8n cycles, all
\* captured, the last one with TMS=1, ends in Exit1-DR, and the TDI of
\* cycle k is bit (k mod 8) of byte (k div 8), the final cycle included.
C7_ShiftBytesTdi ==
    (DrCall /\ Done) =>
        /\ Len(cycles) = 8 * Len(call.data)
        /\ \A k \in 1..Len(cycles) :
              /\ cycles[k].rd
              /\ cycles[k].tms = IF k = Len(cycles) THEN 1 ELSE 0
              /\ cycles[k].tdi = BitsOf(call.data)[k]
        /\ tap = "Exit1DR"

BadArgs ==
    \/ call.fn \in {"shift_ir", "shift_dr"} /\ call.len < 2
    \/ call.fn = "shift_bytes" /\ Len(call.data) < 2

\* C9: shift_ir and shift_dr with len < 2 and shift_bytes with fewer than 2
\* bytes never return, and nothing is written: no write is attempted, no
\* cycle is clocked, and the receive queue and the TAP are as before the call.
C9_ShortShiftRejected ==
    BadArgs =>
        /\ status # "exited"
        /\ log = <<>> /\ tx = <<>> /\ cycles = <<>>
        /\ rx = <<>> /\ resp = <<>>
        /\ tap = tap0 /\ dr = BitsOf(idcode)

C9_Witness ==
    BadArgs /\ status = "panicked" /\ call.fn = "shift_ir" /\ call.len = 1

----------------------------------------------------------------------------
(* Error reporting *)

\* the process is inside sync, reset_tap, a TAP move, a shift or wait_data
InCore ==
    /\ ip <= Len(prog)
    /\ prog[ip].fn # "main" \/ prog[ip].i \in {"poll", "sleep"}

\* C11: no failure of the transport or of a protocol check inside sync,
\* reset_tap, a TAP move, a shift or wait_data ends the process: the
\* failure is handed to the caller as an error result.
C11_NoFailureEndsProcess == ~(status = "panicked" /\ InCore)

----------------------------------------------------------------------------
(* The hard-coded TMS paths *)

\* the states reached from S in at most n cycles
RECURSIVE Within(_, _)
Within(S, n) ==
    IF n = 0 THEN S
    ELSE Within(S \cup {TapNext(s, b) : s \in S, b \in 0..1}, n - 1)

\* the length of a shortest TMS path from s to t
Dist(s, t) ==
    CHOOSE n \in 0..Cardinality(TapStates) :
        /\ t \in Within({s}, n)
        /\ n = 0 \/ t \notin Within({s}, n - 1)

\* the call of a TAP move from the state it is written for has been executed
Moved(fn, from) == call.fn = fn /\ tap0 = from /\ Done

\* C12: each hard-coded path, clocked from its starting state, ends on its
\* target state and takes as many cycles as a shortest path between the two.
C12_PathsShortest ==
    /\ Moved("reset_to_shift_ir", "TLR") =>
          tap = "ShiftIR" /\ Len(cycles) = Dist("TLR", "ShiftIR")
    /\ Moved("reset_to_shift_dr", "TLR") =>
          tap = "ShiftDR" /\ Len(cycles) = Dist("TLR", "ShiftDR")
    /\ Moved("exit_ir_to_shift_dr", "Exit1IR") =>
          tap = "ShiftDR" /\ Len(cycles) = Dist("Exit1IR", "ShiftDR")
    /\ Moved("exit_dr_to_reset", "Exit1DR") =>
          tap = "TLR" /\ Len(cycles) = Dist("Exit1DR", "TLR")

C12_Witness == Moved("reset_to_shift_ir", "TLR") /\ Len(cycles) = 5

----------------------------------------------------------------------------
(* The TAP state implied by the commands written *)

\* the TAP state after the cycles steps
RECURSIVE TapRun(_, _)
TapRun(s, steps) ==
    IF steps = <<>> THEN s ELSE TapRun(TapNext(s, Head(steps).tms), Tail(steps))

\* TAP state and TMS level after the device has executed the writes of
\* entries that succeeded
RECURSIVE Implied(_, _)
Implied(st, entries) ==
    IF entries = <<>> THEN st
    ELSE LET e == Head(entries)
         IN Implied(IF e.ok
                    THEN [tap  |-> TapRun(st.tap, Steps(e.cmd, st.line)),
                          line |-> LineAfter(e.cmd, st.line)]
                    ELSE st,
                    Tail(entries))

\* TAP state and TMS level implied by the first j writes
ImpliedAt(j) ==
    Implied([tap |-> tap0, line |-> EntryTms(tap0)], SubSeq(log, 1, j))

\* write j is the first write of a call of fn
Issues(j, fn) == log[j].fn = fn /\ (j = 1 \/ log[j - 1].fn # fn)

\* C13: in the session of main a TAP reset is written before any shift,
\* shift_ir is issued with the TAP in Shift-IR and the data shift with the
\* TAP in Shift-DR, and after the last command the TAP is in
\* Test-Logic-Reset, whatever state it was in before the session.
C13_SessionOrder ==
    /\ \A j \in 1..Len(log) :
          /\ log[j].fn \in ShiftFns =>
                \E k \in 1..(j - 1) : log[k].fn = "reset_tap" /\ log[k].ok
          /\ Issues(j, "shift_ir") => ImpliedAt(j - 1).tap = "ShiftIR"
          /\ (Issues(j, "shift_bytes") \/ Issues(j, "shift_dr")) =>
                ImpliedAt(j - 1).tap = "ShiftDR"
    /\ status = "exited" =>
          /\ ImpliedAt(Len(log)).tap = "TLR"
          /\ tx = <<>> => tap = "TLR"

C13_Witness == status = "exited" /\ tx = <<>> /\ tap0 = "PauseDR" /\ tap = "TLR"

\* main's read_all of 5 bytes has returned Ok
MainRead == main_buf # None /\ status # "panicked"

\* C14: against a device that answers the bad command with [0xFA, 0xAA],
\* the 5 bytes main reads back are the bytes the capturing commands written
\* since sync produced, all of them, and the receive queue is empty after
\* that read.
C14_ReadBackMatches ==
    (devReply = GoodAck /\ MainRead) =>
        /\ Len(main_buf) = 5
        /\ main_buf = resp
        /\ rx = <<>>

\* C15: once sync has returned the process comes to its end, whatever the
\* device does.
C15_SessionEnds == SyncReturned ~> (status # "running")

\* C16: every clock-TMS and clock-bits command written carries a bit count
\* in 1..7, whatever call wrote it.
C16_BitCountsInRange ==
    \A k \in 1..Len(log) :
        log[k].cmd.op \in {"tms", "bits"} => log[k].cmd.len \in 1..7

\* C17: when a clock-bits or clock-bytes command is written the TAP is in
\* Shift-IR or Shift-DR with TMS left at 0, it is in the same state after
\* the command, and the TMS command written next starts with TMS=1 and
\* takes it to Exit1.
C17_DataInShiftState ==
    \A j \in 1..Len(log) :
        (log[j].ok /\ log[j].cmd.op \in {"bits", "bytes"}) =>
            \A before \in {ImpliedAt(j - 1)} :
                /\ before.tap \in {"ShiftIR", "ShiftDR"}
                /\ before.line = 0
                /\ ImpliedAt(j) = before
                /\ (j < Len(log) /\ log[j + 1].ok /\ log[j + 1].cmd.op = "tms") =>
                      /\ Bit(log[j + 1].cmd.data[1], 0) = 1
                      /\ ImpliedAt(j + 1).tap \in {"Exit1IR", "Exit1DR"}

C17_Witness ==
    /\ status = "exited"
    /\ \E j \in 1..Len(log) : log[j].cmd.op = "bytes"
    /\ \E j \in 1..Len(log) : log[j].cmd.op = "bits" /\ log[j].fn = "shift_ir"

\* C18: from Shift-DR, shift_dr(data, len) with len >= 2 clocks len cycles
\* and ends in Exit1-DR.
C18_ShiftDrCycles ==
    (call.fn = "shift_dr" /\ call.len >= 2 /\ tap0 = "ShiftDR" /\ Done) =>
        /\ Len(cycles) = call.len
        /\ tap = "Exit1DR"

====
